---- MODULE Spec2Model ----
(***************************************************************************)
(* Grocery price tracker API (src/index.js): the five /api handlers, the   *)
(* SQL queries they issue against tesco_products / tesco_price_history,    *)
(* and the analyzeDealPattern helper.                                      *)
(*                                                                         *)
(* Conventions.  Time is counted in whole days (scraped_at, CURRENT_DATE,  *)
(* deal_valid_until).  Prices are integers (pence).  SQL NULL of a numeric *)
(* or date column is the integer NULL, SQL NULL of a text column is        *)
(* NullText.  Averages and percentiles are kept exact: an average is the   *)
(* pair <<sum, count>>, PERCENTILE_CONT(q/4) is kept as four times its     *)
(* value, and comparisons against 1.05, 1.1, 1.15, 1.5 are cross-          *)
(* multiplied.  Values handed to JavaScript by the pg driver carry their   *)
(* JavaScript type.                                                        *)
(***************************************************************************)
EXTENDS Integers, Sequences, FiniteSets, TLC

VARIABLES store, feed, pc, req, priceHistory, stats, issued, responses

vars == <<store, feed, pc, req, priceHistory, stats, issued, responses>>

NULL == 0 - 1
NullText == "<null>"

\* bounds of the model
Today == 200
MaxObs == 3

-----------------------------------------------------------------------------
(* tesco_products: a catalog of four SKUs.  s1 and s2 share (ingredient,    *)
(* category); s3 differs from them in letter case only; s4 is unclassified. *)

SKUs == {"s1", "s2", "s3", "s4"}

Product(sku) ==
  CASE sku = "s1" -> [sku |-> "s1", ingredient |-> "Milk", category |-> "dairy",
                      brand |-> "Arla", full_name |-> "Arla Whole Milk",
                      package_size |-> 500, unit |-> "ml"]
    [] sku = "s2" -> [sku |-> "s2", ingredient |-> "Milk", category |-> "dairy",
                      brand |-> "Tesco", full_name |-> "Tesco Whole Milk",
                      package_size |-> 2, unit |-> "l"]
    [] sku = "s3" -> [sku |-> "s3", ingredient |-> "milk", category |-> "chilled",
                      brand |-> "Yeo", full_name |-> "Yeo Valley Milk",
                      package_size |-> 1, unit |-> "each"]
    [] sku = "s4" -> [sku |-> "s4", ingredient |-> NullText, category |-> "misc",
                      brand |-> "Acme", full_name |-> "Acme Sponge",
                      package_size |-> 1, unit |-> "each"]

\* SQL LOWER() on the texts that occur
Lower(s) ==
  CASE s = "Milk" -> "milk"
    [] s = "MILK" -> "milk"
    [] s = "Eggs" -> "eggs"
    [] s = "EGGS" -> "eggs"
    [] OTHER -> s

\* Collation rank of a text for ORDER BY.  Texts that differ in case only
\* get the same rank: their order depends on the database locale.
Collate(s) ==
  CASE Lower(s) = "acme" \/ s = "Acme" -> 1
    [] s = "Arla" -> 2
    [] Lower(s) = "eggs" -> 3
    [] Lower(s) = "milk" -> 4
    [] s = "Tesco" -> 5
    [] s = "Yeo" -> 6
    [] OTHER -> 7

-----------------------------------------------------------------------------
(* tesco_price_history rows and the bounded stores the checks range over   *)

Observations(skus, days, prices, loyalties, deals, valids) ==
  { o \in [sku : skus, scraped_at : days, price : prices, loyalty_price : loyalties,
           deal_savings_percentage : deals, deal_valid_until : valids] :
      o.loyalty_price = NULL \/ o.loyalty_price <= o.price }

\* one observation per (sku, scraped_at)
Compatible(S, o) == \A x \in S : ~(x.sku = o.sku /\ x.scraped_at = o.scraped_at)

RECURSIVE StoresUpTo(_, _)
StoresUpTo(U, k) ==
  IF k = 0 THEN {{}}
  ELSE LET prev == StoresUpTo(U, k - 1)
       IN  prev \cup { S \cup {o} : <<S, o>> \in { z \in prev \X U : Compatible(z[1], z[2]) } }

-----------------------------------------------------------------------------
(* helpers shared by the queries                                           *)

\* COALESCE(loyalty_price, price)
EffectivePrice(o) == IF o.loyalty_price # NULL THEN o.loyalty_price ELSE o.price

\* JOIN LATERAL (... WHERE sku = p.sku ORDER BY scraped_at DESC LIMIT 1)
HasLatest(S, sku) == \E o \in S : o.sku = sku

Latest(S, sku) ==
  CHOOSE o \in S : o.sku = sku /\ \A x \in S : x.sku = sku => x.scraped_at <= o.scraped_at

RECURSIVE SumOver(_, _)
SumOver(S, f) ==
  IF S = {} THEN 0
  ELSE LET x == CHOOSE y \in S : TRUE IN f[x] + SumOver(S \ {x}, f)

MinOf(V) == CHOOSE v \in V : \A w \in V : v <= w
MaxOf(V) == CHOOSE v \in V : \A w \in V : v >= w

\* All sequences that list the elements of S once each and respect the
\* strict order `before` (a set of pairs <<x, y>>: x sorts strictly before
\* y).  Elements that `before` leaves unordered may come in either order.
RECURSIVE Orderings(_, _)
Orderings(S, before) ==
  IF S = {} THEN {<<>>}
  ELSE UNION { { <<m>> \o rest : rest \in Orderings(S \ {m}, before) } :
               m \in { x \in S : \A y \in S : <<y, x>> \notin before } }

\* LIMIT n
Limit(seq, n) == IF Len(seq) <= n THEN seq ELSE SubSeq(seq, 1, n)

\* the prices of a set of observations in ascending order
SortedPrices(G) ==
  LET ord == CHOOSE s \in Orderings(G, { z \in G \X G : z[1].price < z[2].price }) : TRUE
  IN  [i \in 1..Len(ord) |-> ord[i].price]

\* 4 * PERCENTILE_CONT(q / 4) WITHIN GROUP (ORDER BY price), q in 1..3:
\* linear interpolation at row number 1 + (q/4)(n - 1)
PercentileX4(G, q) ==
  LET v == SortedPrices(G)
      n == Len(v)
      f == (q * (n - 1)) \div 4
      r == (q * (n - 1)) % 4
  IN  IF r = 0 THEN 4 * v[f + 1]
      ELSE 4 * v[f + 1] + r * (v[f + 2] - v[f + 1])

-----------------------------------------------------------------------------
(* values as the pg driver hands them to JavaScript: int8 (COUNT) and       *)
(* numeric (AVG) arrive as strings, int4 as a number, NULL as null         *)

JsNull == [type |-> "null"]
JsNumber(n) == [type |-> "number", value |-> n]
PgBigint(n) == [type |-> "string", value |-> n]
PgNumeric(q) == [type |-> "string", value |-> q]
PgInt4(n) == IF n = NULL THEN JsNull ELSE JsNumber(n)

\* JavaScript a === b
StrictEquals(a, b) == a.type = b.type /\ (a.type # "null" => a.value = b.value)

\* JavaScript truthiness of a driver value (a numeric string is never empty)
Truthy(a) ==
  CASE a.type = "null" -> FALSE
    [] a.type = "number" -> a.value # 0
    [] a.type = "string" -> TRUE

-----------------------------------------------------------------------------
(* HTTP responses                                                          *)

Json(body) == [status |-> 200, body |-> body]
\* variant: the failure message is replaced by a fixed text
ErrorResponseGeneric(msg) == [status |-> 500, body |-> [error |-> "Internal Server Error"]]

ErrorResponse(msg) == [status |-> 500, body |-> [error |-> msg]]

\* messages of store failures (connection refused, statement timeout)
ErrMessages == {"ECONNREFUSED", "canceling statement due to statement timeout"}

Ok(q) == [query |-> q, ok |-> TRUE, error |-> "", at |-> store]
Failed(q, msg) == [query |-> q, ok |-> FALSE, error |-> msg, at |-> store]

-----------------------------------------------------------------------------
(* ROUTE 1: GET /api/ingredients                                           *)

IngredientsJoin(S) == { o \in S : Product(o.sku).ingredient # NullText }

IngredientsGroups(S) ==
  { <<Product(o.sku).ingredient, Product(o.sku).category>> : o \in IngredientsJoin(S) }

IngredientsMinPrice(G) == MinOf({ o.price : o \in G })

IngredientsRow(S, g) ==
  LET G == { o \in IngredientsJoin(S) :
               Product(o.sku).ingredient = g[1] /\ Product(o.sku).category = g[2] }
  IN  [ingredient |-> g[1], category |-> g[2],
       product_count |-> PgBigint(Cardinality({ o.sku : o \in G })),
       min_effective_price |-> IngredientsMinPrice(G),
       standard_unit |-> "unit", price_trend |-> "Stable"]

IngredientsQuery(S) ==
  LET gs == IngredientsGroups(S)
      before == { z \in gs \X gs : Collate(z[1][1]) < Collate(z[2][1]) }
  IN  { [i \in 1..Len(ord) |-> IngredientsRow(S, ord[i])] : ord \in Orderings(gs, before) }

GetIngredients ==
  /\ pc \in {"idle", "done"}
  /\ req' = [endpoint |-> "ingredients", ingredient |-> "", days |-> <<>>]
  /\ \/ \E rows \in IngredientsQuery(store) :
          /\ issued' = <<Ok("ingredients")>>
          /\ responses' = <<Json(rows)>>
     \/ \E msg \in ErrMessages :
          /\ issued' = <<Failed("ingredients", msg)>>
          /\ responses' = <<ErrorResponse(msg)>>
  /\ pc' = "done"
  /\ priceHistory' = <<>>
  /\ stats' = <<>>
  /\ UNCHANGED <<store, feed>>

-----------------------------------------------------------------------------
(* ROUTE 3: GET /api/buy-now-signals                                       *)

\* FROM p JOIN LATERAL latest JOIN ph WHERE ph.scraped_at >= CURRENT_DATE - 60 days
\*   AND p.ingredient IS NOT NULL          (the rows are the ph observations)
BuyJoin(S, today) ==
  { o \in S : o.scraped_at >= today - 60 /\ Product(o.sku).ingredient # NullText }

\* GROUP BY p.ingredient, p.brand, p.full_name, p.package_size, p.unit,
\*          latest.price, latest.loyalty_price, latest.deal_savings_percentage,
\*          latest.deal_valid_until
BuyKey(S, o) ==
  LET p == Product(o.sku)
      l == Latest(S, o.sku)
  IN  <<p.ingredient, p.brand, p.full_name, p.package_size, p.unit,
        l.price, l.loyalty_price, l.deal_savings_percentage, l.deal_valid_until>>

BuyHistoricLow(G) == MinOf({ o.price : o \in G })

BuyAnalysis(S, today, k) ==
  LET G == { o \in BuyJoin(S, today) : BuyKey(S, o) = k }
  IN  [ingredient |-> k[1], brand |-> k[2], full_name |-> k[3],
       package_size |-> k[4], unit |-> k[5],
       price |-> k[6], loyalty_price |-> k[7],
       deal_savings_percentage |-> k[8], deal_valid_until |-> k[9],
       historic_low |-> BuyHistoricLow(G),
       avg_historical_price |-> <<SumOver(G, [o \in G |-> o.price]), Cardinality(G)>>,
       price_25th_percentile_x4 |-> PercentileX4(G, 1),
       effective_price |-> IF k[7] # NULL THEN k[7] ELSE k[6]]

BuyAtLow(a) == a.effective_price * 100 <= a.historic_low * 105
BuyBottomQuartile(a) == 4 * a.effective_price <= a.price_25th_percentile_x4
BuyDealAtLeast(a, pct) ==
  a.deal_savings_percentage # NULL /\ a.deal_savings_percentage >= pct

BuyFilter(a) == BuyAtLow(a) \/ BuyBottomQuartile(a) \/ BuyDealAtLeast(a, 20)

BuyReason(a) ==
  IF BuyAtLow(a) THEN "At historic low"
  ELSE IF BuyBottomQuartile(a) THEN "Bottom 25% of prices"
  ELSE IF BuyDealAtLeast(a, 25) THEN "Excellent deal (25%+ off)"
  ELSE IF BuyDealAtLeast(a, 20) THEN "Great deal (20%+ off)"
  ELSE "Good value"

BuyTier(a) == IF BuyAtLow(a) THEN 1 ELSE IF BuyDealAtLeast(a, 25) THEN 2 ELSE 3

\* potential_savings = avg_historical_price - effective_price, as <<num, den>>
BuySavings(a) ==
  <<a.avg_historical_price[1] - a.effective_price * a.avg_historical_price[2],
    a.avg_historical_price[2]>>

BuyRow(a) ==
  [ingredient |-> a.ingredient, brand |-> a.brand, full_name |-> a.full_name,
   package_size |-> a.package_size, unit |-> a.unit, price |-> a.price,
   loyalty_price |-> a.loyalty_price,
   deal_savings_percentage |-> a.deal_savings_percentage,
   deal_valid_until |-> a.deal_valid_until, historic_low |-> a.historic_low,
   avg_historical_price |-> a.avg_historical_price,
   price_25th_percentile_x4 |-> a.price_25th_percentile_x4,
   effective_price |-> a.effective_price,
   reason |-> BuyReason(a), potential_savings |-> BuySavings(a)]

\* ORDER BY tier, potential_savings DESC NULLS LAST
BuyBefore(a, b) ==
  \/ BuyTier(a) < BuyTier(b)
  \/ /\ BuyTier(a) = BuyTier(b)
     /\ BuySavings(a)[1] * BuySavings(b)[2] > BuySavings(b)[1] * BuySavings(a)[2]

BuyNowSignalsQuery(S, today) ==
  LET ks == { BuyKey(S, o) : o \in BuyJoin(S, today) }
      as == { a \in { BuyAnalysis(S, today, k) : k \in ks } : BuyFilter(a) }
      before == { z \in as \X as : BuyBefore(z[1], z[2]) }
  IN  { Limit([i \in 1..Len(ord) |-> BuyRow(ord[i])], 20) : ord \in Orderings(as, before) }

GetBuyNowSignals ==
  /\ pc \in {"idle", "done"}
  /\ req' = [endpoint |-> "buy-now-signals", ingredient |-> "", days |-> <<>>]
  /\ \/ \E rows \in BuyNowSignalsQuery(store, Today) :
          /\ issued' = <<Ok("buy-now-signals")>>
          /\ responses' = <<Json(rows)>>
     \/ \E msg \in ErrMessages :
          /\ issued' = <<Failed("buy-now-signals", msg)>>
          /\ responses' = <<ErrorResponse(msg)>>
  /\ pc' = "done"
  /\ priceHistory' = <<>>
  /\ stats' = <<>>
  /\ UNCHANGED <<store, feed>>

-----------------------------------------------------------------------------
(* ROUTE 4: GET /api/wait-signals                                          *)

WaitJoin(S, today) ==
  { o \in S : o.scraped_at >= today - 60 /\ Product(o.sku).ingredient # NullText }

\* GROUP BY p.ingredient, p.brand, p.full_name, p.package_size, p.unit,
\*          latest.price, latest.loyalty_price
WaitKey(S, o) ==
  LET p == Product(o.sku)
      l == Latest(S, o.sku)
  IN  <<p.ingredient, p.brand, p.full_name, p.package_size, p.unit,
        l.price, l.loyalty_price>>

\* ph.deal_savings_percentage > 15
IsDeal(o) == o.deal_savings_percentage # NULL /\ o.deal_savings_percentage > 15

WaitAnalysis(S, today, k) ==
  LET G == { o \in WaitJoin(S, today) : WaitKey(S, o) = k }
      D == { o \in G : IsDeal(o) }
  IN  [ingredient |-> k[1], brand |-> k[2], full_name |-> k[3],
       package_size |-> k[4], unit |-> k[5],
       price |-> k[6], loyalty_price |-> k[7],
       avg_price |-> <<SumOver(G, [o \in G |-> o.price]), Cardinality(G)>>,
       min_price |-> MinOf({ o.price : o \in G }),
       price_75th_percentile_x4 |-> PercentileX4(G, 3),
       deal_count |-> Cardinality(D),
       total_observations |-> Cardinality(G),
       days_since_deal |-> IF D = {} THEN NULL
                           ELSE today - MaxOf({ o.scraped_at : o \in D }),
       current_price |-> IF k[7] # NULL THEN k[7] ELSE k[6]]

WaitExpensive(a) ==
  4 * a.current_price >= a.price_75th_percentile_x4 /\ a.deal_count >= 3

\* current_price > avg_price * (pct / 100)
WaitAboveAverage(a, pct) ==
  a.current_price * 100 * a.avg_price[2] > a.avg_price[1] * pct

WaitDealDue(a) ==
  a.days_since_deal # NULL /\ a.days_since_deal >= 14 /\ a.deal_count >= 2

WaitFilter(a) == WaitExpensive(a) \/ WaitAboveAverage(a, 115) \/ WaitDealDue(a)
\* variant: the narrative threshold set above the filter threshold
WaitReasonHigher(a) ==
  IF WaitExpensive(a) THEN "Frequent deals, currently expensive"
  ELSE IF WaitAboveAverage(a, 120) THEN "Above average price"
  ELSE IF WaitDealDue(a) THEN "Deal likely due soon"
  ELSE "Price may drop"

WaitReason(a) ==
  IF WaitExpensive(a) THEN "Frequent deals, currently expensive"
  ELSE IF WaitAboveAverage(a, 110) THEN "Above average price"
  ELSE IF WaitDealDue(a) THEN "Deal likely due soon"
  ELSE "Price may drop"

WaitRow(a) ==
  [ingredient |-> a.ingredient, brand |-> a.brand, full_name |-> a.full_name,
   package_size |-> a.package_size, unit |-> a.unit, price |-> a.price,
   loyalty_price |-> a.loyalty_price, avg_price |-> a.avg_price,
   min_price |-> a.min_price,
   price_75th_percentile_x4 |-> a.price_75th_percentile_x4,
   deal_count |-> PgBigint(a.deal_count),
   total_observations |-> PgBigint(a.total_observations),
   days_since_deal |-> a.days_since_deal, current_price |-> a.current_price,
   reason |-> WaitReason(a), expected_price |-> a.min_price]

\* ORDER BY (current_price - min_price) DESC, days_since_deal DESC NULLS LAST
WaitBefore(a, b) ==
  \/ a.current_price - a.min_price > b.current_price - b.min_price
  \/ /\ a.current_price - a.min_price = b.current_price - b.min_price
     /\ a.days_since_deal # NULL
     /\ (b.days_since_deal = NULL \/ a.days_since_deal > b.days_since_deal)

WaitSignalsQuery(S, today) ==
  LET ks == { WaitKey(S, o) : o \in WaitJoin(S, today) }
      as == { a \in { WaitAnalysis(S, today, k) : k \in ks } : WaitFilter(a) }
      before == { z \in as \X as : WaitBefore(z[1], z[2]) }
  IN  { Limit([i \in 1..Len(ord) |-> WaitRow(ord[i])], 15) : ord \in Orderings(as, before) }

GetWaitSignals ==
  /\ pc \in {"idle", "done"}
  /\ req' = [endpoint |-> "wait-signals", ingredient |-> "", days |-> <<>>]
  /\ \/ \E rows \in WaitSignalsQuery(store, Today) :
          /\ issued' = <<Ok("wait-signals")>>
          /\ responses' = <<Json(rows)>>
     \/ \E msg \in ErrMessages :
          /\ issued' = <<Failed("wait-signals", msg)>>
          /\ responses' = <<ErrorResponse(msg)>>
  /\ pc' = "done"
  /\ priceHistory' = <<>>
  /\ stats' = <<>>
  /\ UNCHANGED <<store, feed>>

-----------------------------------------------------------------------------
(* ROUTE 5: GET /api/expiring-deals                                        *)
\* variant: savings >= 10 instead of > 10
ExpiringFilterAtLeast(o, today) ==
  /\ o.deal_valid_until # NULL
  /\ o.deal_valid_until >= today
  /\ o.deal_valid_until <= today + 5
  /\ o.deal_savings_percentage # NULL
  /\ o.deal_savings_percentage >= 10
  /\ Product(o.sku).ingredient # NullText

\* WHERE ph.deal_valid_until BETWEEN CURRENT_DATE AND CURRENT_DATE + 5 days
\*   AND ph.deal_savings_percentage > 10 AND p.ingredient IS NOT NULL
ExpiringFilter(o, today) ==
  /\ o.deal_valid_until # NULL
  /\ o.deal_valid_until >= today
  /\ o.deal_valid_until <= today + 5
  /\ o.deal_savings_percentage # NULL
  /\ o.deal_savings_percentage > 10
  /\ Product(o.sku).ingredient # NullText

ExpiringRow(o, today) ==
  LET p == Product(o.sku)
  IN  [ingredient |-> p.ingredient, brand |-> p.brand, full_name |-> p.full_name,
       package_size |-> p.package_size, unit |-> p.unit, price |-> o.price,
       loyalty_price |-> o.loyalty_price,
       deal_savings_percentage |-> o.deal_savings_percentage,
       deal_valid_until |-> o.deal_valid_until,
       days_until_expiry |-> o.deal_valid_until - today]

\* ORDER BY ph.deal_valid_until ASC, ph.deal_savings_percentage DESC
ExpiringBefore(a, b) ==
  \/ a.deal_valid_until < b.deal_valid_until
  \/ /\ a.deal_valid_until = b.deal_valid_until
     /\ a.deal_savings_percentage > b.deal_savings_percentage

ExpiringDealsQuery(S, today) ==
  LET ls == { Latest(S, sku) : sku \in { k \in SKUs : HasLatest(S, k) } }
      os == { o \in ls : ExpiringFilter(o, today) }
      before == { z \in os \X os : ExpiringBefore(z[1], z[2]) }
  IN  { Limit([i \in 1..Len(ord) |-> ExpiringRow(ord[i], today)], 20) :
          ord \in Orderings(os, before) }

GetExpiringDeals ==
  /\ pc \in {"idle", "done"}
  /\ req' = [endpoint |-> "expiring-deals", ingredient |-> "", days |-> <<>>]
  /\ \/ \E rows \in ExpiringDealsQuery(store, Today) :
          /\ issued' = <<Ok("expiring-deals")>>
          /\ responses' = <<Json(rows)>>
     \/ \E msg \in ErrMessages :
          /\ issued' = <<Failed("expiring-deals", msg)>>
          /\ responses' = <<ErrorResponse(msg)>>
  /\ pc' = "done"
  /\ priceHistory' = <<>>
  /\ stats' = <<>>
  /\ UNCHANGED <<store, feed>>

-----------------------------------------------------------------------------
(* Helper: analyzeDealPattern(ingredient)                                  *)

\* deal_dates: the observations of the ingredient with savings > 15 scraped
\* in the trailing 90 days
DealDates(S, today, ingredient) ==
  { o \in S : /\ Lower(Product(o.sku).ingredient) = Lower(ingredient)
              /\ Product(o.sku).ingredient # NullText
              /\ IsDeal(o)
              /\ o.scraped_at >= today - 90 }

\* deal_gaps WHERE days_between_deals IS NOT NULL: every deal row but the
\* first in date order, with its distance to the row before it
DealGaps(D) ==
  LET ord == CHOOSE s \in Orderings(D, { z \in D \X D : z[1].scraped_at < z[2].scraped_at }) : TRUE
  IN  [i \in 1..(Len(ord) - 1) |->
         [deal_date |-> ord[i + 1].scraped_at,
          days_between_deals |-> ord[i + 1].scraped_at - ord[i].scraped_at]]

RECURSIVE SumGaps(_, _)
SumGaps(gaps, i) ==
  IF i > Len(gaps) THEN 0 ELSE gaps[i].days_between_deals + SumGaps(gaps, i + 1)

DealFrequency(count) ==
  IF count >= 4 THEN "FREQUENT"
  ELSE IF count >= 2 THEN "OCCASIONAL"
  ELSE "RARE"

\* the single row of the aggregate query, as the driver returns it
DealPatternQuery(S, today, ingredient) ==
  LET gaps == DealGaps(DealDates(S, today, ingredient))
      n == IF DealDates(S, today, ingredient) = {} THEN 0 ELSE Len(gaps)
  IN  [total_deals |-> PgBigint(n),
       avg_days_between_deals |->
         IF n = 0 THEN JsNull ELSE PgNumeric(<<SumGaps(gaps, 1), n>>),
       days_since_last_deal |->
         IF n = 0 THEN JsNull
         ELSE JsNumber(today - MaxOf({ gaps[i].deal_date : i \in 1..n })),
       frequency |-> DealFrequency(n)]

\* Math.round(avg || 0)
RoundedAverage(avg) ==
  IF ~Truthy(avg) THEN 0
  ELSE (2 * avg.value[1] + avg.value[2]) \div (2 * avg.value[2])

\* days_since_last_deal > avg_days_between_deals * 1.5
DealOverdue(pattern) ==
  /\ pattern.days_since_last_deal.type = "number"
  /\ pattern.avg_days_between_deals.type = "string"
  /\ pattern.days_since_last_deal.value * pattern.avg_days_between_deals.value[2] * 2
       > pattern.avg_days_between_deals.value[1] * 3

DealRecommendation(pattern) ==
  IF pattern.frequency = "FREQUENT"
  THEN IF DealOverdue(pattern) THEN "Deal likely soon - consider waiting"
       ELSE "Regular deal pattern - buy when discounted"
  ELSE IF pattern.frequency = "OCCASIONAL"
  THEN "Deals are less predictable - buy at 15%+ discount"
  ELSE "Buy when needed, deals are rare"

\* if (!pattern || pattern.total_deals === 0)
NoDeals(pattern) == StrictEquals(pattern.total_deals, JsNumber(0))
\* variant: the catch block rethrows
DealPatternRethrow(msg) == [type |-> "throw", error |-> msg]

\* the catch block of analyzeDealPattern
DealPatternOnError(msg) ==
  [type |-> "return",
   value |-> [frequency |-> "UNKNOWN", recommendation |-> "Unable to analyze deal pattern"]]

\* outcome is the completion of the pool.query call: [ok, row, error].
\* The result is the completion of analyzeDealPattern: a returned value or
\* a thrown error.
analyzeDealPattern(outcome) ==
  IF ~outcome.ok THEN DealPatternOnError(outcome.error)
  ELSE IF NoDeals(outcome.row)
  THEN [type |-> "return",
        value |-> [frequency |-> "RARE",
                   recommendation |-> "Buy when needed, deals are unpredictable"]]
  ELSE [type |-> "return",
        value |-> [total_deals |-> outcome.row.total_deals,
                   frequency |-> outcome.row.frequency,
                   avg_days_between_deals |->
                     JsNumber(RoundedAverage(outcome.row.avg_days_between_deals)),
                   days_since_last_deal |->
                     IF Truthy(outcome.row.days_since_last_deal)
                     THEN outcome.row.days_since_last_deal ELSE JsNumber(0),
                   recommendation |-> DealRecommendation(outcome.row)]]

-----------------------------------------------------------------------------
(* ROUTE 2: GET /api/ingredient-price-history/:ingredient/:days            *)

Digits == <<"0", "1", "2", "3", "4", "5", "6", "7", "8", "9">>
IsDigit(c) == \E d \in 1..10 : Digits[d] = c
DigitValue(c) == (CHOOSE d \in 1..10 : Digits[d] = c) - 1

RECURSIVE ParseDigits(_, _, _)
ParseDigits(s, i, acc) ==
  IF i > Len(s) \/ ~IsDigit(s[i]) THEN acc
  ELSE ParseDigits(s, i + 1, acc * 10 + DigitValue(s[i]))

\* JavaScript parseInt on a text given as its characters: an optional sign,
\* then the longest run of digits; NaN when there is none
parseInt(s) ==
  LET neg == s # <<>> /\ s[1] = "-"
      start == IF neg THEN 2 ELSE 1
  IN  IF start > Len(s) \/ ~IsDigit(s[start]) THEN [nan |-> TRUE, value |-> 0]
      ELSE [nan |-> FALSE,
            value |-> IF neg THEN 0 - ParseDigits(s, start, 0) ELSE ParseDigits(s, start, 0)]

\* WHERE LOWER(p.ingredient) = LOWER($1)
MatchesIngredient(o, ingredient) ==
  /\ Product(o.sku).ingredient # NullText
  /\ Lower(Product(o.sku).ingredient) = Lower(ingredient)
\* variant: > instead of >=
InWindowStrict(o, today, n) == o.scraped_at > today - n

\* AND ph.scraped_at >= CURRENT_DATE - INTERVAL 'n days'
InWindow(o, today, n) == o.scraped_at >= today - n

HistoryRows(S, today, ingredient, n) ==
  { o \in S : MatchesIngredient(o, ingredient) /\ InWindow(o, today, n) }

\* price per kilogram / litre as <<numerator, denominator>>
PricePerStandardUnit(p, o) ==
  IF p.unit \in {"g", "ml"} THEN <<EffectivePrice(o) * 1000, p.package_size>>
  ELSE IF p.unit \in {"kg", "l"} THEN <<EffectivePrice(o), p.package_size>>
  ELSE <<EffectivePrice(o), 1>>

HistoryRow(o) ==
  LET p == Product(o.sku)
  IN  [brand |-> p.brand, full_name |-> p.full_name, package_size |-> p.package_size,
       unit |-> p.unit, price |-> o.price, loyalty_price |-> o.loyalty_price,
       deal_savings_percentage |-> o.deal_savings_percentage,
       date |-> o.scraped_at, deal_valid_until |-> o.deal_valid_until,
       price_per_standard_unit |-> PricePerStandardUnit(p, o)]

\* ORDER BY ph.scraped_at, p.brand
HistoryBefore(a, b) ==
  \/ a.scraped_at < b.scraped_at
  \/ /\ a.scraped_at = b.scraped_at
     /\ Collate(Product(a.sku).brand) < Collate(Product(b.sku).brand)

PriceHistoryQuery(S, today, ingredient, n) ==
  LET os == HistoryRows(S, today, ingredient, n)
      before == { z \in os \X os : HistoryBefore(z[1], z[2]) }
  IN  { [i \in 1..Len(ord) |-> HistoryRow(ord[i])] : ord \in Orderings(os, before) }

\* the scalar subquery: the effective price of the newest observation of
\* the ingredient, whatever the window
CurrentPrices(S, ingredient) ==
  LET os == { o \in S : MatchesIngredient(o, ingredient) }
  IN  IF os = {} THEN {NULL}
      ELSE { EffectivePrice(o) : o \in { x \in os : \A y \in os : y.scraped_at <= x.scraped_at } }
\* variant: the statistics window excludes its first day
StatsRowsStrict(S, today, ingredient, n) ==
  { o \in S : MatchesIngredient(o, ingredient) /\ o.scraped_at > today - n }

StatsRows(S, today, ingredient, n) ==
  { o \in S : MatchesIngredient(o, ingredient) /\ InWindow(o, today, n) }

StatsQuery(S, today, ingredient, n) ==
  LET G == StatsRows(S, today, ingredient, n)
      E == { EffectivePrice(o) : o \in G }
  IN  { [data_points |-> PgBigint(Cardinality(G)),
         min_price |-> IF G = {} THEN NULL ELSE MinOf(E),
         max_price |-> IF G = {} THEN NULL ELSE MaxOf(E),
         avg_price |-> IF G = {} THEN <<NULL, NULL>>
                       ELSE <<SumOver(G, [o \in G |-> EffectivePrice(o)]), Cardinality(G)>>,
         current_price |-> c,
         deal_count |-> PgBigint(Cardinality({ o \in G :
                          o.deal_savings_percentage # NULL /\ o.deal_savings_percentage > 0 }))] :
        c \in CurrentPrices(S, ingredient) }

\* the store's answer to INTERVAL 'NaN days'
IntervalError == "invalid input syntax for type interval: \"NaN days\""

QueryErrors(n) == IF n.nan THEN ErrMessages \cup {IntervalError} ELSE ErrMessages

Ingredients == {"MILK", "eggs"}
DaysInputs == {<<"0">>, <<"3", "0">>, <<"7", "d">>, <<"x">>}

\* entry of the handler up to the first await returning
PriceHistoryStart ==
  /\ pc \in {"idle", "done"}
  /\ \E ingredient \in Ingredients, days \in DaysInputs :
       /\ req' = [endpoint |-> "ingredient-price-history", ingredient |-> ingredient,
                  days |-> days]
       /\ \/ /\ ~parseInt(days).nan
             /\ \E rows \in PriceHistoryQuery(store, Today, ingredient, parseInt(days).value) :
                  priceHistory' = rows
             /\ issued' = <<Ok("priceHistory")>>
             /\ responses' = <<>>
             /\ pc' = "stats"
          \/ \E msg \in QueryErrors(parseInt(days)) :
               /\ issued' = <<Failed("priceHistory", msg)>>
               /\ responses' = <<ErrorResponse(msg)>>
               /\ priceHistory' = <<>>
               /\ pc' = "done"
  /\ stats' = <<>>
  /\ UNCHANGED <<store, feed>>

\* the second await
PriceHistoryStats ==
  /\ pc = "stats"
  /\ \/ /\ \E row \in StatsQuery(store, Today, req.ingredient, parseInt(req.days).value) :
             stats' = <<row>>
        /\ issued' = Append(issued, Ok("stats"))
        /\ responses' = responses
        /\ pc' = "pattern"
     \/ \E msg \in QueryErrors(parseInt(req.days)) :
          /\ issued' = Append(issued, Failed("stats", msg))
          /\ responses' = Append(responses, ErrorResponse(msg))
          /\ stats' = stats
          /\ pc' = "done"
  /\ UNCHANGED <<store, feed, req, priceHistory>>

\* what the handler does with the completion of analyzeDealPattern
PriceHistoryFinish(completion) ==
  IF completion.type = "throw" THEN ErrorResponse(completion.error)
  ELSE Json([price_history |-> priceHistory, stats |-> stats[1],
             deal_pattern |-> completion.value])

\* await analyzeDealPattern(ingredient), then res.json
PriceHistoryPattern ==
  /\ pc = "pattern"
  /\ \/ /\ issued' = Append(issued, Ok("dealPattern"))
        /\ responses' = Append(responses,
             PriceHistoryFinish(analyzeDealPattern(
               [ok |-> TRUE, row |-> DealPatternQuery(store, Today, req.ingredient),
                error |-> ""])))
     \/ \E msg \in ErrMessages :
          /\ issued' = Append(issued, Failed("dealPattern", msg))
          /\ responses' = Append(responses,
               PriceHistoryFinish(analyzeDealPattern(
                 [ok |-> FALSE, row |-> <<>>, error |-> msg])))
  /\ pc' = "done"
  /\ UNCHANGED <<store, feed, req, priceHistory, stats>>

-----------------------------------------------------------------------------
(* the external ingestion process appends today's scrape results           *)

Ingest ==
  /\ Cardinality(store) < MaxObs
  /\ \E o \in feed :
       /\ Compatible(store, o)
       /\ store' = store \cup {o}
  /\ UNCHANGED <<feed, pc, req, priceHistory, stats, issued, responses>>

-----------------------------------------------------------------------------
InitWith(U) ==
  /\ store \in StoresUpTo(U, MaxObs)
  /\ feed = { o \in U : o.scraped_at = Today }
  /\ pc = "idle"
  /\ req = [endpoint |-> "", ingredient |-> "", days |-> <<>>]
  /\ priceHistory = <<>>
  /\ stats = <<>>
  /\ issued = <<>>
  /\ responses = <<>>

BuyUniverse ==
  Observations({"s1"}, {Today - 70, Today - 20, Today}, {100, 104}, {NULL, 50},
               {NULL, 20}, {NULL})
  \cup Observations({"s4"}, {Today}, {100}, {NULL}, {25}, {NULL})

WaitUniverse ==
  Observations({"s1"}, {Today - 70, Today - 30, Today - 20, Today}, {100, 150},
               {NULL}, {NULL, 20}, {NULL})
  \cup Observations({"s2"}, {Today - 20, Today}, {150}, {NULL, 100}, {NULL}, {NULL})
  \cup Observations({"s4"}, {Today}, {150}, {NULL}, {20}, {NULL})

NextWait == Ingest \/ GetWaitSignals
SpecWait == InitWith(WaitUniverse) /\ [][NextWait]_vars

ExpiringUniverse ==
  Observations({"s1"}, {Today - 1, Today}, {100}, {NULL}, {8, 10, 15},
               {Today - 1, Today, Today + 3, Today + 5, Today + 6})
  \cup Observations({"s2"}, {Today}, {100}, {NULL}, {NULL, 15}, {NULL, Today + 3})
  \cup Observations({"s4"}, {Today}, {100}, {NULL}, {15}, {Today + 3})

NextExpiring == Ingest \/ GetExpiringDeals
SpecExpiring == InitWith(ExpiringUniverse) /\ [][NextExpiring]_vars

HistoryUniverse ==
  Observations({"s1"}, {Today - 100, Today - 40, Today - 10, Today}, {100}, {NULL},
               {10, 20}, {NULL})
  \cup Observations({"s3"}, {Today}, {104}, {50}, {20}, {NULL})
  \cup Observations({"s4"}, {Today}, {100}, {NULL}, {20}, {NULL})

NextHistory == Ingest \/ PriceHistoryStart \/ PriceHistoryStats \/ PriceHistoryPattern
SpecHistory == InitWith(HistoryUniverse) /\ [][NextHistory]_vars

ApiUniverse ==
  Observations({"s1"}, {Today - 70, Today}, {100}, {NULL, 50}, {20}, {NULL, Today + 3})
  \cup Observations({"s4"}, {Today}, {100}, {NULL}, {20}, {Today + 3})

Next ==
  \/ Ingest
  \/ GetIngredients
  \/ PriceHistoryStart
  \/ PriceHistoryStats
  \/ PriceHistoryPattern
  \/ GetBuyNowSignals
  \/ GetWaitSignals
  \/ GetExpiringDeals
Spec == InitWith(ApiUniverse) /\ [][Next]_vars

NextBuy == Ingest \/ GetBuyNowSignals
SpecBuy == InitWith(BuyUniverse) /\ [][NextBuy]_vars

IngredientsUniverse ==
  Observations({"s1", "s2", "s3"}, {Today - 70, Today}, {100, 104}, {NULL, 50},
               {NULL}, {NULL})
  \cup Observations({"s4"}, {Today}, {100}, {NULL}, {NULL}, {NULL})

NextIngredients == Ingest \/ GetIngredients
SpecIngredients == InitWith(IngredientsUniverse) /\ [][NextIngredients]_vars

-----------------------------------------------------------------------------
(* Properties                                                              *)

Done(endpoint) == pc = "done" /\ req.endpoint = endpoint
Answered(endpoint) == Done(endpoint) /\ issued[1].ok
HistoryAnswered ==
  Done("ingredient-price-history") /\ Len(issued) = 3 /\ issued[1].ok /\ issued[2].ok
Classified(sku) == Product(sku).ingredient # NullText

\* the row a query returns for a SKU carries its product fields and the
\* fields of its latest observation
RowOfSku(row, S, sku) ==
  /\ row.ingredient = Product(sku).ingredient
  /\ row.brand = Product(sku).brand
  /\ row.full_name = Product(sku).full_name
  /\ row.package_size = Product(sku).package_size
  /\ row.unit = Product(sku).unit
  /\ row.price = Latest(S, sku).price
  /\ row.loyalty_price = Latest(S, sku).loyalty_price

Returned(rows, S, sku) == \E i \in 1..Len(rows) : RowOfSku(rows[i], S, sku)

C1_Window(S, sku) == { o \in S : o.sku = sku /\ o.scraped_at >= Today - 60 }

C1_Claimed(S, sku) ==
  LET W == C1_Window(S, sku)
      l == Latest(S, sku)
      eff == IF l.loyalty_price # NULL THEN l.loyalty_price ELSE l.price
      low == MinOf({ IF o.loyalty_price # NULL THEN o.loyalty_price ELSE o.price : o \in W })
  IN  \/ eff * 100 <= low * 105
      \/ 4 * eff <= PercentileX4(W, 1)
      \/ l.deal_savings_percentage # NULL /\ l.deal_savings_percentage >= 20

\* C1: a classified SKU with an observation in the 60-day window is returned
\* by buy-now-signals iff its latest effective price is within 5% of the
\* lowest EFFECTIVE price of the window, or at most the window's 25th
\* percentile price, or its latest savings percentage is at least 20.
C1_BuySignalIffClaimed ==
  Answered("buy-now-signals") =>
    \A sku \in SKUs :
      (Classified(sku) /\ C1_Window(issued[1].at, sku) # {}) =>
        (Returned(responses[1].body, issued[1].at, sku) <=> C1_Claimed(issued[1].at, sku))

C2_QualifyingDeals(S, ingredient) ==
  Cardinality({ o \in S : /\ Classified(o.sku)
                          /\ Lower(Product(o.sku).ingredient) = Lower(ingredient)
                          /\ o.deal_savings_percentage # NULL
                          /\ o.deal_savings_percentage > 15
                          /\ o.scraped_at >= Today - 90 })

C2_FrequencyOf(n) == IF n >= 4 THEN "FREQUENT" ELSE IF n >= 2 THEN "OCCASIONAL" ELSE "RARE"

\* C2: the frequency of the deal pattern is decided by the number N of
\* qualifying deals (savings > 15 in the trailing 90 days) alone: 0..1 RARE,
\* 2..3 OCCASIONAL, 4 and more FREQUENT.
C2_FrequencyByDealCount ==
  (HistoryAnswered /\ issued[3].ok) =>
    responses[1].body.deal_pattern.frequency
      = C2_FrequencyOf(C2_QualifyingDeals(issued[3].at, req.ingredient))

\* C3: when the deal-pattern query fails after the two queries before it
\* succeeded, the request answers 200 with the price history rows, the stats
\* row and deal_pattern {UNKNOWN, generic recommendation}.
C3_PatternFailureIsolated ==
  (HistoryAnswered /\ ~issued[3].ok) =>
    /\ Len(responses) = 1
    /\ responses[1].status = 200
    /\ responses[1].body.price_history
         \in PriceHistoryQuery(issued[1].at, Today, req.ingredient, parseInt(req.days).value)
    /\ responses[1].body.stats
         \in StatsQuery(issued[2].at, Today, req.ingredient, parseInt(req.days).value)
    /\ responses[1].body.deal_pattern
         = [frequency |-> "UNKNOWN", recommendation |-> "Unable to analyze deal pattern"]

C3_Witness ==
  /\ HistoryAnswered
  /\ ~issued[3].ok
  /\ Len(priceHistory) > 0
  /\ responses[1].status = 200

C4_ZeroDays == ~parseInt(req.days).nan /\ parseInt(req.days).value = 0

C4_ScrapedToday(S, ingredient) ==
  { o \in S : /\ Classified(o.sku)
              /\ Lower(Product(o.sku).ingredient) = Lower(ingredient)
              /\ o.scraped_at >= Today }

C4_StatsEmpty(st) ==
  /\ st.data_points.value = 0
  /\ st.deal_count.value = 0
  /\ st.min_price = NULL
  /\ st.max_price = NULL
  /\ st.avg_price = <<NULL, NULL>>

\* C4 as stated: a price-history request with days = 0 always returns an
\* empty price_history and zero/null aggregates, whatever the store holds.
C4_ZeroDaysAlwaysEmpty ==
  (HistoryAnswered /\ C4_ZeroDays) =>
    /\ responses[1].status = 200
    /\ responses[1].body.price_history = <<>>
    /\ C4_StatsEmpty(responses[1].body.stats)

\* C4 amended: with days = 0 and the queries succeeding, price_history holds
\* exactly the observations of the ingredient scraped on the current day (or
\* later) and data_points counts them; when there are none the aggregates
\* are zero/null.
C4_ZeroDaysKeepsToday ==
  (HistoryAnswered /\ C4_ZeroDays) =>
    /\ responses[1].status = 200
    /\ Len(responses[1].body.price_history)
         = Cardinality(C4_ScrapedToday(issued[1].at, req.ingredient))
    /\ \A i \in 1..Len(responses[1].body.price_history) :
         responses[1].body.price_history[i].date >= Today
    /\ responses[1].body.stats.data_points.value
         = Cardinality(C4_ScrapedToday(issued[2].at, req.ingredient))
    /\ (C4_ScrapedToday(issued[2].at, req.ingredient) = {}
          => C4_StatsEmpty(responses[1].body.stats))

C4_Witness ==
  /\ HistoryAnswered
  /\ C4_ZeroDays
  /\ C4_ScrapedToday(issued[2].at, req.ingredient) = {}
  /\ \E o \in issued[1].at : Lower(Product(o.sku).ingredient) = Lower(req.ingredient)
  /\ responses[1].body.price_history = <<>>
  /\ responses[1].body.stats.current_price # NULL

\* C5: min_effective_price of an (ingredient, category) group is the lowest
\* effective price (loyalty_price when present, else price) over all
\* observations of the group's SKUs.
C5_MinEffectivePrice ==
  Answered("ingredients") =>
    \A i \in 1..Len(responses[1].body) :
      responses[1].body[i].min_effective_price
        = MinOf({ IF o.loyalty_price # NULL THEN o.loyalty_price ELSE o.price :
                  o \in { x \in issued[1].at :
                            /\ Product(x.sku).ingredient = responses[1].body[i].ingredient
                            /\ Product(x.sku).category = responses[1].body[i].category } })

\* C6: with no qualifying deal in the trailing 90 days and the query
\* succeeding, deal_pattern is exactly {RARE, "Buy when needed, deals are
\* unpredictable"}.
C6_NoDealsIsRareUnpredictable ==
  (HistoryAnswered /\ issued[3].ok /\ C2_QualifyingDeals(issued[3].at, req.ingredient) = 0) =>
    responses[1].body.deal_pattern
      = [frequency |-> "RARE", recommendation |-> "Buy when needed, deals are unpredictable"]

C7_Qualifies(S, sku) ==
  /\ HasLatest(S, sku)
  /\ Classified(sku)
  /\ Latest(S, sku).deal_valid_until # NULL
  /\ Latest(S, sku).deal_valid_until \in Today..(Today + 5)
  /\ Latest(S, sku).deal_savings_percentage # NULL
  /\ Latest(S, sku).deal_savings_percentage > 10

C7_RowOf(row, S, sku) ==
  /\ RowOfSku(row, S, sku)
  /\ row.deal_savings_percentage = Latest(S, sku).deal_savings_percentage
  /\ row.deal_valid_until = Latest(S, sku).deal_valid_until

\* C7: every row of expiring-deals is the latest observation of a classified
\* SKU with deal_valid_until in [today, today + 5] and savings > 10, with
\* days_until_expiry = deal_valid_until - today; and when at most 20 SKUs
\* qualify every one of them is returned.
C7_ExpiringDealsExact ==
  Answered("expiring-deals") =>
    /\ \A i \in 1..Len(responses[1].body) :
         /\ \E sku \in SKUs : /\ C7_Qualifies(issued[1].at, sku)
                              /\ C7_RowOf(responses[1].body[i], issued[1].at, sku)
         /\ responses[1].body[i].days_until_expiry
              = responses[1].body[i].deal_valid_until - Today
    /\ (Cardinality({ sku \in SKUs : C7_Qualifies(issued[1].at, sku) }) <= 20 =>
          \A sku \in { k \in SKUs : C7_Qualifies(issued[1].at, k) } :
            \E i \in 1..Len(responses[1].body) :
              C7_RowOf(responses[1].body[i], issued[1].at, sku))

C7_Witness ==
  /\ Answered("expiring-deals")
  /\ \E i \in 1..Len(responses[1].body) :
       /\ responses[1].body[i].days_until_expiry = 3
       /\ responses[1].body[i].deal_savings_percentage = 15
  /\ \E sku \in SKUs :
       /\ HasLatest(issued[1].at, sku)
       /\ Latest(issued[1].at, sku).deal_valid_until = Today + 3
       /\ Latest(issued[1].at, sku).deal_savings_percentage = 8
       /\ ~Returned(responses[1].body, issued[1].at, sku)

C8_Results(S) ==
  [price_history : PriceHistoryQuery(S, Today, req.ingredient, parseInt(req.days).value),
   stats : StatsQuery(S, Today, req.ingredient, parseInt(req.days).value),
   deal_pattern : { analyzeDealPattern(
                      [ok |-> TRUE, row |-> DealPatternQuery(S, Today, req.ingredient),
                       error |-> ""]).value }]

\* C8 as stated: the response of a price-history request equals the results
\* of its three queries on one store state S between request start and
\* response; in particular data_points is the number of price_history rows.
C8_SingleSnapshot ==
  (HistoryAnswered /\ issued[3].ok) =>
    /\ \E S \in SUBSET issued[3].at :
         /\ issued[1].at \subseteq S
         /\ responses[1].body \in C8_Results(S)
    /\ responses[1].body.stats.data_points.value = Len(responses[1].body.price_history)

\* C8 amended: the three queries of a request read the store one after the
\* other, each at the state of its own moment, later states extending
\* earlier ones; while the date does not change, data_points is at least the
\* number of price_history rows, and equal to it when nothing was appended
\* between the first two queries.
C8_SuccessiveSnapshots ==
  (HistoryAnswered /\ issued[3].ok) =>
    /\ issued[1].at \subseteq issued[2].at
    /\ issued[2].at \subseteq issued[3].at
    /\ responses[1].body.stats.data_points.value >= Len(responses[1].body.price_history)
    /\ (issued[1].at = issued[2].at =>
          responses[1].body.stats.data_points.value = Len(responses[1].body.price_history))

C8_Witness ==
  /\ HistoryAnswered
  /\ issued[3].ok
  /\ issued[1].at # issued[2].at
  /\ Len(responses[1].body.price_history) > 0
  /\ responses[1].body.stats.data_points.value > Len(responses[1].body.price_history)

\* C9: a failure of a query the handler issues itself ends the request with
\* exactly one response, 500 {error: message of the failure}; the failed
\* query is the last one issued and no query is issued twice.
C9_DirectFailureIs500 ==
  (pc = "done" /\ \E i \in 1..Len(issued) : ~issued[i].ok /\ issued[i].query # "dealPattern") =>
    /\ Len(responses) = 1
    /\ responses[1].status = 500
    /\ responses[1].body = [error |-> issued[Len(issued)].error]
    /\ \A i \in 1..(Len(issued) - 1) : issued[i].ok
    /\ \A i, j \in 1..Len(issued) : i # j => issued[i].query # issued[j].query

C9_Witness ==
  /\ Done("ingredient-price-history")
  /\ Len(issued) = 2
  /\ issued[1].ok
  /\ ~issued[2].ok
  /\ responses = <<[status |-> 500, body |-> [error |-> "ECONNREFUSED"]]>>

\* C10: no row of wait-signals carries the fallback reason: a row admitted
\* by the 1.15 x average filter is labelled by the 1.1 x average branch.
C10_NoFallbackReason ==
  Answered("wait-signals") =>
    \A i \in 1..Len(responses[1].body) : responses[1].body[i].reason # "Price may drop"

C10_Witness ==
  /\ Answered("wait-signals")
  /\ \E i \in 1..Len(responses[1].body) :
       /\ responses[1].body[i].reason = "Above average price"
       /\ responses[1].body[i].deal_count.value < 2
       /\ responses[1].body[i].current_price * 100 * responses[1].body[i].avg_price[2]
            <= responses[1].body[i].avg_price[1] * 120
====
